---- MODULE Spec2Model ----
(***************************************************************************)
(* Zone reconfiguration (gurobi/zone_reconfig.py): the script loads an     *)
(* adjacency matrix and a workload listing, builds a mixed-integer         *)
(* quadratic model (variables x, w, y; constraints b..j; a balancing       *)
(* objective), calls the solver once and writes the assignment it returns. *)
(*                                                                         *)
(* Text is modelled as sequences of one-character strings, so that the     *)
(* slices the script takes of a variable name are real slices: the beat    *)
(* "101" is <<"1","0","1">> and the empty CSV cell is << >>.               *)
(***************************************************************************)
EXTENDS Integers, Sequences, FiniteSets, TLC

VARIABLES
    m,          \* number of zones (line 12)
    data,       \* rows of beats_graph.csv as csv.reader yields them
    wlines,     \* records of workload.txt, already split at the comma
    pc,         \* position of the script
    err,        \* the exception that ended the run, "" when none
    nodes,      \* list of nodes (line 19)
    arcs,       \* node -> list of adjacent nodes (line 24)
    workloads,  \* node -> workload (line 27)
    q,          \* n - m + 1 (line 30)
    sol,        \* the solver's variable assignment [x, w, y]
    SolCount,   \* model.SolCount
    Status,     \* model.Status
    optimizeCalls, \* number of calls of model.optimize()
    fresult,    \* opt_result.csv: "unopened", or [header, rows]
    stderr      \* diagnostic stream: sequence of messages

vars == <<m, data, wlines, pc, err, nodes, arcs, workloads, q, sol,
          SolCount, Status, optimizeCalls, fresult, stderr>>

----------------------------------------------------------------------------
(* Bounds of the model. *)

\* largest number of nodes of an input graph
MaxNodes == 3
\* largest number of undirected edges of an input graph
MaxEdges == 3
\* largest zone count m tried (m = 0 and m > n are among the inputs)
MaxM == 4
\* largest number of nodes of the inputs whose identifiers and workload listing vary
VariantNodes == 2
\* largest number of nodes of the matrices the loader alone is run on
LoadNodes == 3

----------------------------------------------------------------------------
(* Arithmetic and sequence helpers. *)

RECURSIVE SumOver(_, _)
\* sum of f over the keys S (S a subset of DOMAIN f): tupledict.sum
SumOver(f, S) ==
    IF S = {} THEN 0
    ELSE LET e == CHOOSE e \in S : TRUE IN f[e] + SumOver(f, S \ {e})

RECURSIVE SumSeq(_)
\* Python sum(list)
SumSeq(s) == IF s = << >> THEN 0 ELSE Head(s) + SumSeq(Tail(s))

Range(s) == { s[i] : i \in 1..Len(s) }

\* Python s[a:b] on a sequence (0-based, end exclusive, clipped to the length)
Slice(s, a, b) ==
    LET hi == IF b < Len(s) THEN b ELSE Len(s)
    IN  IF a >= hi THEN << >> ELSE SubSeq(s, a + 1, hi)

DigitChars == <<"0", "1", "2", "3", "4", "5", "6", "7", "8", "9">>

RECURSIVE Str(_)
\* Python str(k) / "%d" % k for a natural k
Str(k) == IF k < 10 THEN <<DigitChars[k + 1]>>
          ELSE Str(k \div 10) \o <<DigitChars[(k % 10) + 1]>>

Empty == << >>
Cell0 == <<"0">>
Cell1 == <<"1">>
\* a cell that is neither "0" nor "1" nor empty
CellJunk == <<"2">>

----------------------------------------------------------------------------
(* Input files.  An adjacency file is a header row (an empty corner cell,  *)
(* then the node identifiers) followed by one row per node (the node's     *)
(* identifier, then one cell per column).                                  *)

\* three-character identifiers, as the beats of ../data/beats_graph.csv
LongIds == << <<"1","0","1">>, <<"1","0","2">>, <<"1","0","3">>, <<"1","0","4">>,
             <<"1","0","5">>, <<"1","0","6">> >>
\* one-character identifiers
ShortIds == << <<"A">>, <<"B">>, <<"C">>, <<"D">>, <<"E">>, <<"F">> >>
\* an identifier that no header holds
ExtraId(ids) == IF Len(ids[1]) = 1 THEN <<"Z">> ELSE <<"9","9","9">>

Pairs(n) == { e \in SUBSET (1..n) : Cardinality(e) = 2 }

\* the CSV rows of the symmetric 0/1 matrix of the graph (1..n, E) over ids
GraphData(ids, n, E) ==
    << <<Empty>> \o SubSeq(ids, 1, n) >> \o
    [ i \in 1..n |->
        <<ids[i]>> \o [ j \in 1..n |-> IF {i, j} \in E THEN Cell1 ELSE Cell0 ] ]

\* the CSV rows of an arbitrary matrix of cells c[i][j] over ids
MatrixData(ids, n, c) ==
    << <<Empty>> \o SubSeq(ids, 1, n) >> \o
    [ i \in 1..n |-> <<ids[i]>> \o c[i] ]

\* workload records: one of 10 for each of the first k identifiers
WorkloadLines(ids, k) == [ i \in 1..k |-> <<ids[i], 10>> ]

----------------------------------------------------------------------------
(* Lines 15-27: the input loading block. *)

\* line 19: nodes = [ d for d in data[0] if d != "" ]
LoadedNodes == SelectSeq(data[1], LAMBDA d : d # Empty)

\* line 23, outer comprehension: the rows whose first cell is not empty
MatrixRows == SelectSeq(data, LAMBDA row : row[1] # Empty)

\* line 23, inner comprehension: the cells equal to "0" or "1", as integers
IntCells(row) ==
    LET kept == SelectSeq(row, LAMBDA d : d = Cell1 \/ d = Cell0)
    IN  [ j \in 1..Len(kept) |-> IF kept[j] = Cell1 THEN 1 ELSE 0 ]

RECURSIVE AdjacentFrom(_, _, _)
\* line 24, inner comprehension: [ nodes[j] for j, e in enumerate(cells) if e != 0 ]
AdjacentFrom(ns, cells, j) ==
    IF j > Len(cells) THEN << >>
    ELSE (IF cells[j] # 0 THEN <<ns[j]>> ELSE << >>) \o AdjacentFrom(ns, cells, j + 1)

\* line 24: nodes[i] or nodes[j] is read past the end of the node list
ArcsIndexError(ns, rows) ==
    \/ Len(rows) > Len(ns)
    \/ \E i \in 1..Len(rows) :
          LET cells == IntCells(rows[i])
          IN  \E j \in 1..Len(cells) : cells[j] # 0 /\ j > Len(ns)

\* line 24: the dictionary nodes[i] -> adjacent nodes (a later row of the same key wins)
LoadedArcs(ns, rows) ==
    [ id \in { ns[i] : i \in 1..Len(rows) } |->
        LET i == CHOOSE i \in 1..Len(rows) :
                    ns[i] = id /\ \A i2 \in 1..Len(rows) : ns[i2] = id => i2 <= i
        IN  AdjacentFrom(ns, IntCells(rows[i]), 1) ]

\* lines 26-27: the dictionary node -> workload (a later record of the same key wins)
LoadedWorkloads ==
    [ id \in { wlines[i][1] : i \in 1..Len(wlines) } |->
        LET i == CHOOSE i \in 1..Len(wlines) :
                    wlines[i][1] = id /\ \A i2 \in 1..Len(wlines) : wlines[i2][1] = id => i2 <= i
        IN  wlines[i][2] ]

Load ==
    /\ pc = "load"
    /\ IF data = << >> \/ \E r \in 1..Len(data) : data[r] = << >>
       THEN \* data[0] or row[0] of an empty list
            /\ pc' = "error" /\ err' = "IndexError"
            /\ UNCHANGED <<nodes, arcs, workloads>>
       ELSE IF ArcsIndexError(LoadedNodes, MatrixRows)
       THEN /\ pc' = "error" /\ err' = "IndexError"
            /\ nodes' = LoadedNodes
            /\ UNCHANGED <<arcs, workloads>>
       ELSE /\ nodes' = LoadedNodes
            /\ arcs' = LoadedArcs(LoadedNodes, MatrixRows)
            /\ workloads' = LoadedWorkloads
            /\ pc' = "build" /\ err' = ""
    /\ UNCHANGED <<m, data, wlines, q, sol, SolCount, Status, optimizeCalls, fresult, stderr>>

----------------------------------------------------------------------------
(* Lines 29-74: the model.  Variables are keyed as in the script: x and w  *)
(* by <<node, zone>>, y by <<node, node, zone>>.                           *)

\* line 21: zones = list(range(m))
Zones == 0..(m - 1)

NodeSet == Range(nodes)

\* line 29
n == Len(nodes)

\* The pairs whose flow occurs in constraint c or f: (i, j) with j in arcs[i] or
\* i in arcs[j].  The script creates y for every pair of nodes (line 41); the flow
\* on a pair outside FlowPairs occurs in h, i and j only, which the value 0
\* satisfies whatever x and w are, so those flows are held at 0 and not stored.
FlowPairs ==
    { p \in NodeSet \X NodeSet :
        \/ p[1] \in DOMAIN arcs /\ p[2] \in Range(arcs[p[1]])
        \/ p[2] \in DOMAIN arcs /\ p[1] \in Range(arcs[p[2]]) }

FlowKeys(k) == { <<p[1], p[2], k>> : p \in FlowPairs }

\* y[i,j,k]
Y(yv, i, j, k) == IF <<i, j, k>> \in DOMAIN yv THEN yv[<<i, j, k>>] ELSE 0

\* sum([ y[i,j,k] for j in arcs[i] ])
OutFlow(yv, i, k) == SumSeq([ t \in 1..Len(arcs[i]) |-> Y(yv, i, arcs[i][t], k) ])

\* sum([ y[j,i,k] for j in arcs[i] ])
InFlow(yv, i, k) == SumSeq([ t \in 1..Len(arcs[i]) |-> Y(yv, arcs[i][t], i, k) ])

\* b that lets a node go unassigned
ConstrBAtMostOne(xv, i) == SumOver(xv, {i} \X Zones) <= 1

\* line 49, constraint b, for node i
ConstrB(xv, i) == SumOver(xv, {i} \X Zones) = 1

\* c that relieves every node, not only the sink
ConstrCNoSink(xv, wv, yv, i, k) ==
    OutFlow(yv, i, k) - InFlow(yv, i, k) >= xv[<<i, k>>] - q

\* lines 51-53, constraint c, for node i and zone k
ConstrC(xv, wv, yv, i, k) ==
    OutFlow(yv, i, k) - InFlow(yv, i, k) >= xv[<<i, k>>] - q * wv[<<i, k>>]

\* line 55, constraint d
ConstrD(wv) == SumOver(wv, NodeSet \X Zones) = m

\* line 57, constraint e, for zone j
ConstrE(wv, j) == SumOver(wv, NodeSet \X {j}) = 1

\* line 60, constraint f, for node i and zone k
ConstrF(xv, yv, i, k) == InFlow(yv, i, k) <= (q - 1) * xv[<<i, k>>]

\* g with the bound 1, which binds nothing
ConstrGLoose(xv, wv, i, k) == wv[<<i, k>>] - xv[<<i, k>>] <= 1

\* line 62, constraint g, for node i and zone k
ConstrG(xv, wv, i, k) == wv[<<i, k>>] - xv[<<i, k>>] <= 0

\* line 64, constraint h, for nodes i, j and zone k
ConstrH(xv, yv, i, j, k) == Y(yv, i, j, k) + Y(yv, j, i, k) <= (q - 1) * xv[<<i, k>>]

\* line 65, constraint i, for nodes i, j and zone k
ConstrI(xv, yv, i, j, k) == Y(yv, i, j, k) + Y(yv, j, i, k) <= (q - 1) * xv[<<j, k>>]

\* line 67, constraint j, for nodes i, j and zone k
ConstrJ(yv, i, j, k) == Y(yv, i, j, k) >= 0

\* the constraints on the flows of zone k between the nodes of U (h, i, j)
PairConstrs(xv, yv, U, k) ==
    \A i \in U : \A j \in U :
        ConstrH(xv, yv, i, j, k) /\ ConstrI(xv, yv, i, j, k) /\ ConstrJ(yv, i, j, k)

\* the constraints on the flows of zone k into and out of each node (c, f)
NodeConstrs(xv, wv, yv, k) ==
    \A i \in NodeSet : ConstrC(xv, wv, yv, i, k) /\ ConstrF(xv, yv, i, k)

\* the constraints on the flows of zone k
FlowConstrs(xv, wv, yv, k) ==
    NodeConstrs(xv, wv, yv, k) /\ PairConstrs(xv, yv, NodeSet, k)

\* every constraint the script adds to the model
Feasible(a) ==
    /\ \A i \in NodeSet : ConstrB(a.x, i)
    /\ ConstrD(a.w)
    /\ \A j \in Zones : ConstrE(a.w, j)
    /\ \A i \in NodeSet : \A k \in Zones : ConstrG(a.x, a.w, i, k)
    /\ \A k \in Zones : FlowConstrs(a.x, a.w, a.y, k)

----------------------------------------------------------------------------
(* The feasible set.  Flows are taken at integer values; a flow above      *)
(* q - 1 violates h, so 0..q-1 holds every integer flow of a feasible      *)
(* assignment.  The set is built group by group (b is one constraint per   *)
(* node; e and g are per zone; h, i and j are per zone and pair of nodes;  *)
(* c and f are per zone), each group filtered by its own constraints,      *)
(* which yields the assignments that satisfy Feasible.                     *)

\* lines 37, 39: the domain of a binary variable
Binary == {0, 1}

\* line 41: the domain of a flow variable (lower bound 0), cut at what h allows
FlowValues == 0..(IF q > 1 THEN q - 1 ELSE 0)

EmptyFcn == [ z \in {} |-> 0 ]

RECURSIVE Merged(_, _)
\* the unions of one function out of each F[k], k in K (the domains are disjoint)
Merged(F, K) ==
    IF K = {} THEN { EmptyFcn }
    ELSE LET k == CHOOSE k \in K : TRUE
             rest == Merged(F, K \ {k})
         IN  IF rest = {} THEN {} ELSE { f @@ g : f \in F[k], g \in rest }

\* the values of x that satisfy b
XSolutions ==
    Merged([ i \in NodeSet |-> { r \in [ {i} \X Zones -> Binary ] : ConstrB(r, i) } ],
           NodeSet)

\* the values of w that satisfy d, e and g, given x
WSolutions(xv) ==
    { wv \in Merged([ k \in Zones |->
                        { c \in [ NodeSet \X {k} -> Binary ] :
                            ConstrE(c, k) /\ \A i \in NodeSet : ConstrG(xv, c, i, k) } ],
                    Zones) :
        ConstrD(wv) }

\* the flows between the nodes of U (one or two nodes) in zone k that satisfy h, i, j
PairFlows(xv, U, k) ==
    { f \in [ { key \in FlowKeys(k) : {key[1], key[2]} = U } -> FlowValues ] :
        PairConstrs(xv, f, U, k) }

\* the flows of zone k that satisfy c, f, h, i and j, given x and w
ZoneFlows(xv, wv, k) ==
    LET Us == { {p[1], p[2]} : p \in FlowPairs }
    IN  { f \in Merged([ U \in Us |-> PairFlows(xv, U, k) ], Us) :
            NodeConstrs(xv, wv, f, k) }

\* the values of y that satisfy c, f, h, i and j, given x and w
YSolutions(xv, wv) == Merged([ k \in Zones |-> ZoneFlows(xv, wv, k) ], Zones)

Solutions ==
    UNION { UNION { { [x |-> xv, w |-> wv, y |-> yv] : yv \in YSolutions(xv, wv) }
                    : wv \in WSolutions(xv) }
            : xv \in XSolutions }

\* lines 70-74: the objective, times m * m to stay in the integers:
\* sum over k of (m * sum_i x[i,k] * u[i] - sum_i u[i]) squared
ZoneLoad(xv, k) == SumSeq([ t \in 1..n |-> xv[<<nodes[t], k>>] * workloads[nodes[t]] ])

TotalLoad == SumSeq([ t \in 1..n |-> workloads[nodes[t]] ])

\* the deviation from the total workload instead of the mean
DeviationFromTotal(xv, k) == m * ZoneLoad(xv, k) - m * TotalLoad

Deviation(xv, k) == m * ZoneLoad(xv, k) - TotalLoad

Objective(xv) ==
    SumSeq([ t \in 1..m |-> Deviation(xv, t - 1) * Deviation(xv, t - 1) ])

\* a bound on the zone size that is one too small
QOffByOne(nn, mm) == nn - mm

\* line 30: q = n - m + 1
QValue(nn, mm) == nn - mm + 1

\* lines 29-74: n, q, the variables, the constraints and the objective.  The
\* generators of c and of the objective read arcs[i] and u[i] once per zone, so a
\* missing key raises only when there is a zone.
Build ==
    /\ pc = "build"
    /\ q' = QValue(n, m)
    /\ IF m > 0 /\ \E i \in NodeSet : i \notin DOMAIN arcs \/ i \notin DOMAIN workloads
       THEN pc' = "error" /\ err' = "KeyError"
       ELSE pc' = "optimize" /\ err' = ""
    /\ UNCHANGED <<m, data, wlines, nodes, arcs, workloads, sol, SolCount, Status,
                   optimizeCalls, fresult, stderr>>

----------------------------------------------------------------------------
(* Line 77: the solver.  It is called once and returns with an incumbent   *)
(* (any assignment that satisfies the constraints; Status says whether it  *)
(* is one of least objective), or with none: because the model is          *)
(* infeasible, or because the solver failed before it found one.           *)

NoSol == [x |-> EmptyFcn, w |-> EmptyFcn, y |-> EmptyFcn]

\* line 74, GRB.MINIMIZE: no objective value of the feasible set is below a's
Optimal(a, values) == \A v \in values : Objective(a.x) <= v

Optimize ==
    /\ pc = "optimize"
    /\ optimizeCalls' = optimizeCalls + 1
    /\ pc' = "organize"
    /\ \E S \in {Solutions} :
           \/ \E values \in {{ Objective(b.x) : b \in S }} :
              \E a \in S :
                /\ Feasible(a)
                /\ sol' = a
                /\ SolCount' = 1
                /\ Status' = IF Optimal(a, values) THEN "OPTIMAL" ELSE "INTERRUPTED"
           \/ /\ S = {}
              /\ sol' = NoSol
              /\ SolCount' = 0
              /\ Status' = "INFEASIBLE"
           \/ /\ sol' = NoSol
              /\ SolCount' = 0
              /\ Status' = "NUMERIC"
    /\ UNCHANGED <<m, data, wlines, err, nodes, arcs, workloads, q, fresult, stderr>>

----------------------------------------------------------------------------
(* Lines 80-93: the result file. *)

\* the name the solver gives a variable: "x[101,0]", "y[101,102,0]"
VarName(kind, ids, k) ==
    LET RECURSIVE Joined(_)
        Joined(t) == IF t > Len(ids) THEN << >> ELSE ids[t] \o <<",">> \o Joined(t + 1)
    IN  <<kind, "[">> \o Joined(1) \o Str(k) \o <<"]">>

\* line 87: model.getVars(), the variables in the order of their creation
\* (x, then w, then y; each over its keys in the order of the lists), with v.X
GetVars(a) ==
    [ t \in 1..(n * m) |->
        LET i == nodes[((t - 1) \div m) + 1]
            k == (t - 1) % m
        IN  [VarName |-> VarName("x", <<i>>, k), X |-> a.x[<<i, k>>]] ]
    \o
    [ t \in 1..(n * m) |->
        LET i == nodes[((t - 1) \div m) + 1]
            k == (t - 1) % m
        IN  [VarName |-> VarName("w", <<i>>, k), X |-> a.w[<<i, k>>]] ]
    \o
    [ t \in 1..(n * n * m) |->
        LET i == nodes[((t - 1) \div (n * m)) + 1]
            j == nodes[(((t - 1) \div m) % n) + 1]
            k == (t - 1) % m
        IN  [VarName |-> VarName("y", <<i, j>>, k), X |-> Y(a.y, i, j, k)] ]

RECURSIVE WriteRows(_, _, _, _, _)
\* lines 86-93: the loop over the variables from position t on; no is the next
\* line number, rows and msgs what was written so far.  A name shorter than 7
\* characters has no VarName[6]; a node that is no key of workloads raises.
WriteRows(vs, t, no, rows, msgs) ==
    IF t > Len(vs) THEN [rows |-> rows, msgs |-> msgs, err |-> ""]
    ELSE IF vs[t].X = 1 /\ vs[t].VarName[1] = "x"
    THEN LET node == Slice(vs[t].VarName, 2, 5)
         IN  IF Len(vs[t].VarName) < 7
             THEN [rows |-> rows, msgs |-> msgs, err |-> "IndexError"]
             ELSE IF node \notin DOMAIN workloads
             THEN [rows |-> rows, msgs |-> msgs, err |-> "KeyError"]
             ELSE WriteRows(vs, t + 1, no + 1,
                      Append(rows, [no |-> no, beat |-> node,
                                    zone |-> <<vs[t].VarName[7]>>,
                                    workload |-> workloads[node]]),
                      Append(msgs, [text |-> "beat in zone", beat |-> node,
                                    zone |-> <<vs[t].VarName[7]>>]))
    ELSE WriteRows(vs, t + 1, no, rows, msgs)

Header == <<"", "beat", "zone", "workload">>

Unopened == [opened |-> FALSE, header |-> << >>, rows |-> << >>]

\* Organize that opens the result file before it looks at SolCount
OrganizeOpensFirst ==
    /\ pc = "organize"
    /\ IF SolCount = 0
       THEN /\ stderr' = Append(stderr, [text |-> "No solution found", status |-> Status])
            /\ fresult' = [opened |-> TRUE, header |-> Header, rows |-> << >>]
            /\ pc' = "done" /\ err' = ""
       ELSE LET out == WriteRows(GetVars(sol), 1, 1, << >>,
                           <<[text |-> "Solution found", objective |-> Objective(sol.x)]>>)
            IN  /\ stderr' = stderr \o out.msgs
                /\ fresult' = [opened |-> TRUE, header |-> Header, rows |-> out.rows]
                /\ err' = out.err
                /\ pc' = IF out.err = "" THEN "done" ELSE "error"
    /\ UNCHANGED <<m, data, wlines, nodes, arcs, workloads, q, sol, SolCount, Status,
                   optimizeCalls>>

Organize ==
    /\ pc = "organize"
    /\ IF SolCount = 0
       THEN /\ stderr' = Append(stderr, [text |-> "No solution found", status |-> Status])
            /\ fresult' = fresult
            /\ pc' = "done" /\ err' = ""
       ELSE LET out == WriteRows(GetVars(sol), 1, 1, << >>,
                           <<[text |-> "Solution found", objective |-> Objective(sol.x)]>>)
            IN  /\ stderr' = stderr \o out.msgs
                /\ fresult' = [opened |-> TRUE, header |-> Header, rows |-> out.rows]
                /\ err' = out.err
                /\ pc' = IF out.err = "" THEN "done" ELSE "error"
    /\ UNCHANGED <<m, data, wlines, nodes, arcs, workloads, q, sol, SolCount, Status,
                   optimizeCalls>>

----------------------------------------------------------------------------
(* The runs. *)

\* the state before the script starts, given its configuration and input files
Start(mm, dd, ww) ==
    /\ m = mm /\ data = dd /\ wlines = ww
    /\ pc = "load" /\ err = ""
    /\ nodes = << >> /\ arcs = EmptyFcn /\ workloads = EmptyFcn
    /\ q = 0
    /\ sol = NoSol /\ SolCount = 0 /\ Status = "LOADED"
    /\ optimizeCalls = 0
    /\ fresult = Unopened
    /\ stderr = << >>

\* the symmetric graphs of at most nn nodes and MaxEdges edges
Graphs(nn) == { E \in SUBSET Pairs(nn) : Cardinality(E) <= MaxEdges }

\* the path of four nodes, A - B - C - D
PathEdges == { {1, 2}, {2, 3}, {3, 4} }

\* the path of four nodes with workload 10 on every node; every graph of Graphs
\* with m from 0 to MaxM and a complete workload listing; and
\* the graphs of at most VariantNodes nodes with three- or one-character
\* identifiers and a workload listing that is complete, lacks the last node, or
\* holds a node more
Init ==
    \/ \E ids \in {LongIds, ShortIds} : \E mm \in 0..MaxM :
          Start(mm, GraphData(ids, 4, PathEdges), WorkloadLines(ids, 4))
    \/ \E nn \in 1..MaxNodes : \E E \in Graphs(nn) : \E mm \in 0..MaxM :
          Start(mm, GraphData(LongIds, nn, E), WorkloadLines(LongIds, nn))
    \/ \E ids \in {LongIds, ShortIds} :
       \E nn \in 1..VariantNodes : \E E \in Graphs(nn) : \E mm \in 0..MaxM :
       \E ww \in { WorkloadLines(ids, nn),
                   WorkloadLines(ids, nn - 1),
                   Append(WorkloadLines(ids, nn), <<ExtraId(ids), 10>>) } :
          Start(mm, GraphData(ids, nn, E), ww)

Next == Load \/ Build \/ Optimize \/ Organize

Spec == Init /\ [][Next]_vars

\* the loader alone, on every matrix of at most LoadNodes nodes whose cells are
\* "0", "1" or another text
InitLoad ==
    \E nn \in 1..LoadNodes :
    \E c \in [ 1..nn -> [ 1..nn -> {Cell0, Cell1, CellJunk} ] ] :
        Start(1, MatrixData(LongIds, nn, c), WorkloadLines(LongIds, nn))

NextLoad == Load

SpecLoad == InitLoad /\ [][NextLoad]_vars

----------------------------------------------------------------------------
(* Properties. *)

\* the nodes the assignment a puts in zone k
Members(a, k) == { i \in NodeSet : a.x[<<i, k>>] = 1 }

\* the nodes the assignment a names sink of zone k
Sinks(a, k) == { i \in NodeSet : a.w[<<i, k>>] = 1 }

\* the adjacency is symmetric
SymmetricArcs ==
    \A i \in NodeSet : \A j \in NodeSet :
        j \in Range(arcs[i]) <=> i \in Range(arcs[j])

RECURSIVE Reach(_, _)
\* the nodes of S reached from R along arcs that stay in S
Reach(R, S) ==
    LET R2 == R \cup { j \in S : \E i \in R : j \in Range(arcs[i]) }
    IN  IF R2 = R THEN R ELSE Reach(R2, S)

\* the solver returned an assignment
Solved == optimizeCalls = 1 /\ SolCount >= 1

\* C1: in every assignment that satisfies the constraints b..j, every node is in
\* exactly one zone: exactly one k in [0, m) has x[i,k] = 1.
C1_Partition ==
    Solved => \A i \in NodeSet : Cardinality({ k \in Zones : sol.x[<<i, k>>] = 1 }) = 1

C1_Witness == Solved /\ m >= 2 /\ n >= 3

\* C2: on a symmetric graph, in every assignment that satisfies the constraints,
\* every zone with a node induces a connected subgraph: each of its nodes is
\* reached from the zone's sink along arcs through nodes of the zone.
C2_Contiguity ==
    (Solved /\ SymmetricArcs) =>
        \A k \in Zones :
            Members(sol, k) # {} =>
                Members(sol, k) \subseteq
                    Reach(Sinks(sol, k) \cap Members(sol, k), Members(sol, k))

\* a zone of two nodes or more, on a graph where two nodes are not adjacent
C2_Witness ==
    /\ Solved /\ SymmetricArcs
    /\ \E k \in Zones : Cardinality(Members(sol, k)) >= 2
    /\ \E i \in NodeSet : \E j \in NodeSet : i # j /\ j \notin Range(arcs[i])

\* C3: in every assignment that satisfies the constraints there are m sink
\* designations in all, exactly one per zone, and a sink of zone k is in zone k.
C3_Sinks ==
    Solved =>
        /\ SumOver(sol.w, NodeSet \X Zones) = m
        /\ \A k \in Zones : Cardinality(Sinks(sol, k)) = 1
        /\ \A i \in NodeSet : \A k \in Zones :
              sol.w[<<i, k>>] = 1 => sol.x[<<i, k>>] = 1

C3_Witness == Solved /\ m >= 2 /\ n > m

\* the assignments of the nodes to the zones in which every zone has a node and
\* induces a connected subgraph
ContiguousPartitions ==
    { f \in [ NodeSet -> Zones ] :
        \A k \in Zones :
            LET S == { i \in NodeSet : f[i] = k }
            IN  S # {} /\ \E r \in S : Reach({r}, S) = S }

\* the value of x that states the assignment f
XOf(f) == [ p \in NodeSet \X Zones |-> IF f[p[1]] = p[2] THEN 1 ELSE 0 ]

\* C10: on a symmetric graph and for m in [1, n], every partition of the nodes
\* into m non-empty connected zones is the x of an assignment that satisfies the
\* constraints b..j with q = n - m + 1, and the model is feasible exactly when
\* such a partition exists.
C10_Complete ==
    (pc = "optimize" /\ 1 <= m /\ m <= n /\ SymmetricArcs) =>
        \E S \in {Solutions} :
            /\ \A f \in ContiguousPartitions : \E a \in S : a.x = XOf(f)
            /\ S # {} <=> ContiguousPartitions # {}

\* a built model with two zones or more, a zone of two nodes, and a partition
C10_Witness ==
    /\ pc = "optimize" /\ 2 <= m /\ m < n /\ SymmetricArcs
    /\ ContiguousPartitions # {}

\* the scenario of the path A - B - C - D, workload 10 on every node, m = 2
PathScenario ==
    /\ m = 2
    /\ data \in { GraphData(LongIds, 4, PathEdges), GraphData(ShortIds, 4, PathEdges) }
    /\ \A t \in 1..Len(wlines) : wlines[t][2] = 10

\* C8: the objective is the sum over the zones of the squared deviation of the
\* zone's workload from total / m (here times m * m), and on the path scenario an
\* assignment of least objective puts {A, B} in one zone and {C, D} in the other
\* and has objective 0.
C8_Balanced ==
    (Solved /\ PathScenario) =>
        LET L0 == 10 * Cardinality(Members(sol, 0))
            L1 == 10 * Cardinality(Members(sol, 1))
        IN  /\ Objective(sol.x) = 4 * ((L0 - 20) * (L0 - 20) + (L1 - 20) * (L1 - 20))
            /\ Status = "OPTIMAL" =>
                  /\ Objective(sol.x) = 0
                  /\ { Members(sol, 0), Members(sol, 1) } =
                        { {nodes[1], nodes[2]}, {nodes[3], nodes[4]} }

C8_Witness == Solved /\ PathScenario /\ Status = "OPTIMAL"

\* C5: when the solver returns without a solution the result file is not opened
\* and the diagnostic names the status; the result file is opened only after a
\* solve that returned a solution; the solver is called once and never again.
C5_NoResultWithoutSolution ==
    /\ optimizeCalls <= 1
    /\ pc \in {"organize", "done"} => optimizeCalls = 1
    /\ fresult.opened => (optimizeCalls = 1 /\ SolCount >= 1)
    /\ (pc = "done" /\ SolCount = 0) =>
          /\ ~fresult.opened
          /\ stderr = <<[text |-> "No solution found", status |-> Status]>>

C5_Witness == pc = "done" /\ optimizeCalls = 1 /\ SolCount = 0 /\ Status = "INFEASIBLE"

\* the nodes of the header and the nodes of the workload records
HeaderNodes == Range(SelectSeq(data[1], LAMBDA d : d # Empty))
WorkloadNodes == { wlines[t][1] : t \in 1..Len(wlines) }

\* C4: after a solve that returned a partition, the table holds one row per node,
\* numbered 1..n in the order of the variables, with the node's identifier, its
\* zone and its workload, whatever the identifiers.
C4_RoundTrip ==
    (Solved /\ pc \in {"done", "error"}) =>
        /\ pc = "done"
        /\ Len(fresult.rows) = n
        /\ \A t \in 1..n :
              /\ fresult.rows[t].no = t
              /\ fresult.rows[t].beat = nodes[t]
              /\ \E k \in Zones : sol.x[<<nodes[t], k>>] = 1 /\ fresult.rows[t].zone = Str(k)
              /\ fresult.rows[t].workload = workloads[nodes[t]]

\* C6: a node in one input and not in the other ends the run before the solver
\* is called, whichever input lacks it (stated for m in [1, n], where the run
\* has zones and does not owe its outcome to the zone count).
C6_MissingDataFatal ==
    (1 <= m /\ m <= Cardinality(HeaderNodes) /\ HeaderNodes # WorkloadNodes) =>
        optimizeCalls = 0

\* C7: the solver is never called with m outside [1, n].
C7_ZoneCountChecked ==
    optimizeCalls > 0 => (1 <= m /\ m <= n)

\* C9: node j is adjacent to node i exactly when the cell of row i in the column
\* of node j is "1", whatever the other cells of the row hold.
C9_AdjacencyFromCells ==
    pc = "build" =>
        \A i \in 1..n : \A j \in 1..n :
            nodes[j] \in Range(arcs[nodes[i]]) <=> data[i + 1][j + 1] = Cell1

====
